---- MODULE Spec2Model ----
(***************************************************************************)
(* A model of the symmetric-group engine of os-symmetry-synchronization:   *)
(* src/src/permutations.py and src/src/stabilizer.py.                      *)
(*                                                                         *)
(* A permutation is a Python dict {1: s(1), ..., n: s(n)}; here it is a    *)
(* TLA+ function whose DOMAIN is the dict's key set.  Dict equality does   *)
(* not depend on insertion order, and neither does function equality.      *)
(* A Python list is a sequence.  A call either returns a value or raises:  *)
(* its outcome is a record [err |-> "", val |-> v] or [err |-> e, ...].    *)
(*                                                                         *)
(* The functions of the engine are pure; every specification below draws   *)
(* the arguments of one call (arg) in its initial states and then runs the *)
(* call, loops of the code being run one iteration per step (loc holds the *)
(* locals of the running call, ret its outcome, pc its position).          *)
(***************************************************************************)
EXTENDS Integers, Sequences, FiniteSets, TLC

VARIABLES pc, arg, ret, loc

vars == <<pc, arg, ret, loc>>

\* ------------------------------------------------------------------ bounds

\* Largest n of the S_n the algebraic laws, subgroups and cosets are run on.
MaxN == 3

\* Largest point a key set offered to make_permutation and compose may hold.
MaxPt == 3

\* Exponents of power are drawn from -MaxExp..MaxExp.
MaxExp == 3

\* Largest n whose permutations order is run on (the 4-cycle needs 4).
MaxOrdN == 4

\* The loop of order is followed for at most MaxK iterations: on a mapping
\* that never returns to the identity it would count for ever.
MaxK == 8

\* Largest n generate_Sn is run on.
MaxGenN == 5

\* Largest n verify_stabilizer is run on.
MaxVerN == 4

\* Largest n whose permutations to_cycles is run on.
MaxCycN == 4

\* A list of at most MaxShuffle elements is offered to coset_decomposition
\* in every order; a longer one in its rotations and their reversals.
MaxShuffle == 6

\* is_subgroup is run on every list of at most MaxListLen permutations
\* (besides the subgroups and the lists one element away from a subgroup).
MaxListLen == 2

\* ------------------------------------------------------------ call outcomes

None == <<>>

Ok(v) == [err |-> "", val |-> v]

Raise(e) == [err |-> e, val |-> None]

\* ------------------------------------------------------------------ helpers

Range(f) == {f[x] : x \in DOMAIN f}

SeqSet(s) == {s[i] : i \in 1..Len(s)}

Min(S) == CHOOSE m \in S : \A x \in S : m <= x

Max(S) == CHOOSE m \in S : \A x \in S : m >= x

RECURSIVE sorted_descending(_)
\* sorted as a bug would have it: the descending list.
sorted_descending(S) ==
    IF S = {} THEN <<>> ELSE <<Max(S)>> \o sorted_descending(S \ {Max(S)})

RECURSIVE sorted(_)
\* Python's sorted() on a set of integers: the ascending list.
sorted(S) == IF S = {} THEN <<>> ELSE <<Min(S)>> \o sorted(S \ {Min(S)})

RECURSIVE factorial(_)
factorial(n) == IF n <= 0 THEN 1 ELSE n * factorial(n - 1)

RECURSIVE Flatten(_)
Flatten(ss) == IF ss = <<>> THEN <<>> ELSE Head(ss) \o Flatten(Tail(ss))

\* ------------------------------------------------------- permutations.py

identity(n) == [i \in 1..n |-> i]

\* compose as a bug would have it: sigma applied first, tau second.
compose_sigma_first(sigma, tau) ==
    IF DOMAIN sigma # DOMAIN tau
    THEN Raise("ValueError")
    ELSE IF \E i \in DOMAIN sigma : sigma[i] \notin DOMAIN tau
         THEN Raise("KeyError")
         ELSE Ok([i \in DOMAIN sigma |-> tau[sigma[i]]])

\* compose(sigma, tau): ValueError when the key sets differ; otherwise
\* {i: sigma[tau[i]] for i in tau}, whose lookup sigma[tau[i]] raises
\* KeyError when tau[i] is no key of sigma.
compose(sigma, tau) ==
    IF DOMAIN sigma # DOMAIN tau
    THEN Raise("ValueError")
    ELSE IF \E i \in DOMAIN tau : tau[i] \notin DOMAIN sigma
         THEN Raise("KeyError")
         ELSE Ok([i \in DOMAIN tau |-> sigma[tau[i]]])

\* inverse as a bug would have it: the mapping itself.
inverse_unswapped(sigma) == sigma

\* inverse(sigma) = {v: k for k, v in sigma.items()}: the keys are the
\* values of sigma.  When two keys share a value the dict keeps the one
\* inserted last, which depends on the insertion order: any of them here.
inverse(sigma) ==
    [v \in Range(sigma) |-> CHOOSE k \in DOMAIN sigma : sigma[k] = v]

\* The composition of two outcomes: an exception raised while computing an
\* argument propagates.
Then(r, F(_)) == IF r.err # "" THEN r ELSE F(r.val)

\* make_permutation as a bug would have it: only "every value is a key".
make_permutation_subset(mapping) ==
    IF ~(Range(mapping) \subseteq DOMAIN mapping)
    THEN Raise("ValueError")
    ELSE Ok(mapping)

\* make_permutation(mapping): ValueError when set(keys) != set(values);
\* otherwise dict(mapping), a copy equal to the argument.
make_permutation(mapping) ==
    LET keys   == DOMAIN mapping
        values == Range(mapping)
    IN  IF keys # values
        THEN Raise("ValueError")
        ELSE Ok([i \in keys |-> mapping[i]])

RECURSIVE power_loop(_, _, _)
\* for _ in range(abs(k)): result = compose(result, base)
power_loop(result, base, count) ==
    IF count = 0
    THEN Ok(result)
    ELSE Then(compose(result, base),
              LAMBDA r : power_loop(r, base, count - 1))

\* power as a bug would have it: the sign of k ignored.
power_unsigned(sigma, k) ==
    LET n == Cardinality(DOMAIN sigma)
    IN  IF k = 0 THEN Ok(identity(n))
        ELSE power_loop(identity(n), sigma, IF k > 0 THEN k ELSE -k)

\* power(sigma, k): identity(len(sigma)) composed abs(k) times with sigma
\* (k > 0) or with inverse(sigma) (k < 0).
power(sigma, k) ==
    LET n      == Cardinality(DOMAIN sigma)
        result == identity(n)
    IN  IF k = 0
        THEN Ok(result)
        ELSE LET base == IF k > 0 THEN sigma ELSE inverse(sigma)
             IN  power_loop(result, base, IF k > 0 THEN k ELSE -k)

\* itertools.permutations is exhausted after the descending tuple.
is_last_permutation(p) == \A i \in 1..(Len(p) - 1) : p[i] > p[i + 1]

\* next_permutation as a bug would have it: the tail after the swap is not
\* reversed.
next_permutation_unreversed(p) ==
    LET n == Len(p)
        i == CHOOSE a \in 1..(n - 1) :
                 /\ p[a] < p[a + 1]
                 /\ \A b \in (a + 1)..(n - 1) : p[b] > p[b + 1]
        j == CHOOSE a \in (i + 1)..n :
                 /\ p[a] > p[i]
                 /\ \A b \in (a + 1)..n : p[b] < p[i]
    IN  [p EXCEPT ![i] = p[j], ![j] = p[i]]

\* The tuple itertools.permutations yields after p: the lexicographic
\* successor (swap the last ascent's left end with the last larger entry
\* to its right, then reverse what follows it).
next_permutation(p) ==
    LET n == Len(p)
        i == CHOOSE a \in 1..(n - 1) :
                 /\ p[a] < p[a + 1]
                 /\ \A b \in (a + 1)..(n - 1) : p[b] > p[b + 1]
        j == CHOOSE a \in (i + 1)..n :
                 /\ p[a] > p[i]
                 /\ \A b \in (a + 1)..n : p[b] < p[i]
        q == [p EXCEPT ![i] = p[j], ![j] = p[i]]
    IN  [m \in 1..n |-> IF m <= i THEN q[m] ELSE q[n + i + 1 - m]]

\* dict(zip(range(1, n + 1), perm))
zip_dict(n, perm) == [i \in 1..n |-> perm[i]]

RECURSIVE nth_permutation(_, _)
\* The tuple itertools.permutations(pool) yields at place r, counting from
\* 0: the tuples come in lexicographic order of the places of pool, so the
\* first entry is pool[r // (len(pool) - 1)!] and the rest is the tuple at
\* place r % (len(pool) - 1)! of the pool without it.
nth_permutation(pool, r) ==
    IF pool = <<>>
    THEN <<>>
    ELSE LET f    == factorial(Len(pool) - 1)
             at   == (r \div f) + 1
             rest == [j \in 1..(Len(pool) - 1) |->
                         IF j < at THEN pool[j] ELSE pool[j + 1]]
         IN  <<pool[at]>> \o nth_permutation(rest, r % f)

\* generate_Sn(n): one dict per tuple of
\* itertools.permutations(range(1, n + 1)), which yields n! tuples.
generate_Sn(n) ==
    [k \in 1..factorial(n) |->
        zip_dict(n, nth_permutation([i \in 1..n |-> i], k - 1))]

RECURSIVE follow_cycle(_, _, _, _)
\* The inner loop of to_cycles:
\*   while current not in visited:
\*       visited.add(current); cycle.append(current); current = sigma[current]
\* whose lookup raises KeyError when current is no key of sigma.
follow_cycle(sigma, current, visited, cycle) ==
    IF current \in visited
    THEN Ok([visited |-> visited, cycle |-> cycle])
    ELSE IF current \notin DOMAIN sigma
         THEN Raise("KeyError")
         ELSE follow_cycle(sigma, sigma[current], visited \cup {current},
                           Append(cycle, current))

RECURSIVE cycles_from(_, _, _, _)
\* The outer loop of to_cycles over the starts still to come: a visited
\* start is skipped, a cycle of length 1 is dropped.
cycles_from(sigma, starts, visited, cycles) ==
    IF starts = <<>>
    THEN Ok(cycles)
    ELSE IF Head(starts) \in visited
         THEN cycles_from(sigma, Tail(starts), visited, cycles)
         ELSE Then(follow_cycle(sigma, Head(starts), visited, <<>>),
                   LAMBDA f : cycles_from(sigma, Tail(starts), f.visited,
                                  IF Len(f.cycle) > 1
                                  THEN Append(cycles, f.cycle)
                                  ELSE cycles))

\* to_cycles(sigma): the cycles of sigma, scanning sorted(sigma.keys()).
to_cycles(sigma) == cycles_from(sigma, sorted(DOMAIN sigma), {}, <<>>)

RECURSIVE join_points(_)
\* ' '.join(str(x) for x in c), a string being the sequence of its pieces.
join_points(c) ==
    IF Len(c) <= 1
    THEN [j \in 1..Len(c) |-> ToString(c[j])]
    ELSE <<ToString(Head(c)), " ">> \o join_points(Tail(c))

\* What cycle_notation_str returns for the cycles to_cycles gave it.
render_cycles(cycles) ==
    IF cycles = <<>>
    THEN Ok(<<"e">>)
    ELSE Ok(Flatten([c \in 1..Len(cycles) |->
                        <<"(">> \o join_points(cycles[c]) \o <<")">>]))

\* cycle_notation_str(sigma): "e" when to_cycles gives no cycle, otherwise
\* each cycle between parentheses, its points separated by blanks; an
\* exception of to_cycles propagates.
cycle_notation_str(sigma) == Then(to_cycles(sigma), render_cycles)

\* The message is_subgroup prints before it returns False: the cycle
\* notations of the permutations it names; the first exception raised
\* while formatting them propagates.
fail_message(perms) ==
    LET bad == {i \in 1..Len(perms) : cycle_notation_str(perms[i]).err # ""}
    IN  IF bad # {}
        THEN cycle_notation_str(perms[Min(bad)])
        ELSE Ok([i \in 1..Len(perms) |-> cycle_notation_str(perms[i]).val])

\* tuple(sorted(sigma.items())): the (key, value) pairs, ascending by key.
perm_key(sigma) ==
    LET ks == sorted(DOMAIN sigma)
    IN  [j \in 1..Len(ks) |-> <<ks[j], sigma[ks[j]]>>]

\* The pair (s, t) the closure loops of is_subgroup reach at turn p, p
\* counting from 0: s is the outer loop's element, t the inner loop's.
closure_pair(subset, p) ==
    [s |-> subset[(p \div Len(subset)) + 1], t |-> subset[(p % Len(subset)) + 1]]

\* is_subgroup as a bug would have it: the closure loops left out.
is_subgroup_unclosed(subset, n) ==
    LET subset_set == {perm_key(subset[i]) : i \in 1..Len(subset)}
    IN  Ok(/\ perm_key(identity(n)) \in subset_set
           /\ \A i \in 1..Len(subset) :
                  perm_key(inverse(subset[i])) \in subset_set)

\* is_subgroup(subset, n): False at the first check that fails, in the
\* order identity, closure (s outer, t inner), inverses, after printing
\* which permutations failed it; an exception of compose in the closure
\* loops, or of the formatting of the message, propagates; True otherwise.
is_subgroup(subset, n) ==
    LET e          == identity(n)
        subset_set == [i \in 1..Len(subset) |-> perm_key(subset[i])]
        Member(key) == \E i \in 1..Len(subset) : subset_set[i] = key
        turns      == 0..(Len(subset) * Len(subset) - 1)
        st(p)      == compose(closure_pair(subset, p).s, closure_pair(subset, p).t)
        Stops(p)   == st(p).err # "" \/ ~Member(perm_key(st(p).val))
        NoInverse(i) == ~Member(perm_key(inverse(subset[i])))
        False(perms) == IF fail_message(perms).err # ""
                        THEN fail_message(perms)
                        ELSE Ok(FALSE)
    IN  IF ~Member(perm_key(e))
        THEN Ok(FALSE)
        ELSE IF \E p \in turns : Stops(p)
             THEN LET first == Min({p \in turns : Stops(p)})
                      pair  == closure_pair(subset, first)
                  IN  IF st(first).err # ""
                      THEN st(first)
                      ELSE False(<<pair.s, pair.t, st(first).val>>)
             ELSE IF \E i \in 1..Len(subset) : NoInverse(i)
                  THEN False(<<subset[Min({i \in 1..Len(subset) : NoInverse(i)})]>>)
                  ELSE Ok(TRUE)

\* ---------------------------------------------------------- stabilizer.py

\* compute_stabilizer as a bug would have it: the test negated.
compute_stabilizer_moving(Sn, fixed_point) ==
    SelectSeq(Sn, LAMBDA sigma : sigma[fixed_point] # fixed_point)

\* compute_stabilizer(Sn, fixed_point)
compute_stabilizer(Sn, fixed_point) ==
    SelectSeq(Sn, LAMBDA sigma : sigma[fixed_point] = fixed_point)

\* compute_orbit(Sn, point)
compute_orbit(Sn, point) == {Sn[i][point] : i \in 1..Len(Sn)}

\* left_coset(sigma, subgroup) = [compose(sigma, h) for h in subgroup]; the
\* first exception of compose propagates.
left_coset(sigma, subgroup) ==
    LET c(i) == compose(sigma, subgroup[i])
        bad  == {i \in 1..Len(subgroup) : c(i).err # ""}
    IN  IF bad # {}
        THEN c(Min(bad))
        ELSE Ok([i \in 1..Len(subgroup) |-> c(i).val])

\* The keys coset_decomposition adds to covered for one coset, as a bug
\* would have it: the representative's key only.
coset_keys_first_only(coset) ==
    IF coset = <<>> THEN {} ELSE {perm_key(coset[1])}

\* for element in coset: covered.add(perm_key(element))
coset_keys(coset) == {perm_key(coset[i]) : i \in 1..Len(coset)}

\* coset_decomposition as a bug would have it: the sort left out.
sort_cosets_left_out(cosets, subgroup_keys) ==
    IF \E i \in 1..Len(cosets) : cosets[i] = <<>>
    THEN Raise("IndexError")
    ELSE Ok(cosets)

\* cosets.sort(key=lambda c: 0 if perm_key(c[0]) in subgroup_keys else 1):
\* list.sort is stable, so the cosets of key 0 come first, each group in
\* its order of discovery; c[0] of an empty coset raises IndexError.
sort_cosets(cosets, subgroup_keys) ==
    IF \E i \in 1..Len(cosets) : cosets[i] = <<>>
    THEN Raise("IndexError")
    ELSE Ok(SelectSeq(cosets, LAMBDA c : perm_key(c[1]) \in subgroup_keys)
            \o SelectSeq(cosets, LAMBDA c : perm_key(c[1]) \notin subgroup_keys))

\* ------------------------------------------------------------ input sets

\* Every mapping from a key set within 1..MaxPt to values in 1..MaxPt+1:
\* bijections, repeated values, values that are no key.
Mappings == UNION {[K -> 1..(MaxPt + 1)] : K \in SUBSET (1..MaxPt)}

\* The permutation values: the mappings make_permutation accepts.
PermutationValues == {m \in Mappings : make_permutation(m).err = ""}

\* --------------------------------------------------- the group laws (C1)

InitGroup ==
    /\ pc = "call"
    /\ arg \in UNION {
           {[n |-> n, sigma |-> s, tau |-> t, rho |-> r] :
                s \in SeqSet(generate_Sn(n)),
                t \in SeqSet(generate_Sn(n)),
                r \in SeqSet(generate_Sn(n))} : n \in 1..MaxN}
    /\ ret = None
    /\ loc = None

\* Both sides of every group law, computed with compose, inverse, identity.
GroupLaws ==
    /\ pc = "call"
    /\ pc' = "done"
    /\ ret' = [assoc_l |-> Then(compose(arg.sigma, arg.tau),
                                LAMBDA st : compose(st, arg.rho)),
               assoc_r |-> Then(compose(arg.tau, arg.rho),
                                LAMBDA tr : compose(arg.sigma, tr)),
               unit_r  |-> compose(arg.sigma, identity(arg.n)),
               unit_l  |-> compose(identity(arg.n), arg.sigma),
               inv_r   |-> compose(arg.sigma, inverse(arg.sigma)),
               inv_l   |-> compose(inverse(arg.sigma), arg.sigma)]
    /\ UNCHANGED <<arg, loc>>

SpecGroup == InitGroup /\ [][GroupLaws]_vars

\* C1: for every n in 1..MaxN and sigma, tau, rho of generate_Sn(n), compose
\* is associative, identity(n) is its two-sided unit and inverse(sigma) is
\* the two-sided inverse of sigma.
GroupAxiomsHold ==
    pc = "done" =>
        /\ ret.assoc_l.err = "" /\ ret.assoc_l = ret.assoc_r
        /\ ret.unit_r = Ok(arg.sigma) /\ ret.unit_l = Ok(arg.sigma)
        /\ ret.inv_r = Ok(identity(arg.n)) /\ ret.inv_l = Ok(identity(arg.n))

\* The laws were computed for three permutations of {1,2,3} that do not
\* commute and are not their own inverses.
GroupAxiomsWitness ==
    /\ pc = "done"
    /\ arg.n = 3
    /\ arg.sigma = <<2, 3, 1>>
    /\ arg.tau = <<2, 1, 3>>
    /\ arg.rho = <<1, 3, 2>>
    /\ compose(arg.sigma, arg.tau) # compose(arg.tau, arg.sigma)
    /\ inverse(arg.sigma) # arg.sigma
    /\ ret.inv_r = Ok(identity(3))

\* ---------------------------------------------- compose and its error (C2)

InitCompose ==
    /\ pc = "call"
    /\ arg \in {[sigma |-> s, tau |-> t] : s \in PermutationValues, t \in PermutationValues}
    /\ ret = None
    /\ loc = None

Compose ==
    /\ pc = "call"
    /\ pc' = "done"
    /\ ret' = compose(arg.sigma, arg.tau)
    /\ UNCHANGED <<arg, loc>>

SpecCompose == InitCompose /\ [][Compose]_vars

\* C2: compose(sigma, tau) raises the domain-mismatch error exactly when the
\* key sets differ, and otherwise returns the mapping on the same keys that
\* sends i to sigma(tau(i)); (1 2) o (2 3) is {1:2, 2:3, 3:1}.
ComposeContract ==
    pc = "done" =>
        /\ (ret.err = "ValueError") <=> (DOMAIN arg.sigma # DOMAIN arg.tau)
        /\ DOMAIN arg.sigma = DOMAIN arg.tau =>
              /\ ret.err = ""
              /\ DOMAIN ret.val = DOMAIN arg.sigma
              /\ \A i \in DOMAIN arg.tau : ret.val[i] = arg.sigma[arg.tau[i]]
        /\ (arg.sigma = <<2, 1, 3>> /\ arg.tau = <<1, 3, 2>>) =>
              ret = Ok(<<2, 3, 1>>)

\* compose returned for the pair of the example, where the order of
\* application shows.
ComposeWitness ==
    /\ pc = "done"
    /\ arg.sigma = <<2, 1, 3>>
    /\ arg.tau = <<1, 3, 2>>
    /\ ret.err = ""
    /\ ret.val # [i \in 1..3 |-> arg.tau[arg.sigma[i]]]

\* compose raised for two permutations on different key sets of equal size.
ComposeMismatchReached ==
    /\ pc = "done"
    /\ DOMAIN arg.sigma = {1, 2}
    /\ DOMAIN arg.tau = {2, 3}
    /\ ret.err = "ValueError"

\* --------------------------------------------------- the power laws (C7)

InitPower ==
    /\ pc = "call"
    /\ arg \in UNION {
           {[n |-> n, sigma |-> s, a |-> a, b |-> b] :
                s \in SeqSet(generate_Sn(n)),
                a \in (-MaxExp)..MaxExp,
                b \in (-MaxExp)..MaxExp} : n \in 1..MaxN}
    /\ ret = None
    /\ loc = None

\* power(sigma, a + b), compose(power(sigma, a), power(sigma, b)),
\* power(sigma, 0) and power(sigma, -1).
PowerLaws ==
    /\ pc = "call"
    /\ pc' = "done"
    /\ ret' = [sum  |-> power(arg.sigma, arg.a + arg.b),
               prod |-> Then(power(arg.sigma, arg.a), LAMBDA pa :
                        Then(power(arg.sigma, arg.b), LAMBDA pb :
                        compose(pa, pb))),
               zero |-> power(arg.sigma, 0),
               neg1 |-> power(arg.sigma, -1)]
    /\ UNCHANGED <<arg, loc>>

SpecPower == InitPower /\ [][PowerLaws]_vars

\* C7: for every sigma of generate_Sn(n) and all a, b in -MaxExp..MaxExp,
\* power(sigma, a+b) = compose(power(sigma, a), power(sigma, b)),
\* power(sigma, 0) = identity(n) and power(sigma, -1) = inverse(sigma).
PowerLawsHold ==
    pc = "done" =>
        /\ ret.sum.err = ""
        /\ ret.sum = ret.prod
        /\ ret.zero = Ok(identity(arg.n))
        /\ ret.neg1 = Ok(inverse(arg.sigma))

\* The law was computed for exponents of opposite sign on a 3-cycle, whose
\* inverse differs from it.
PowerLawsWitness ==
    /\ pc = "done"
    /\ arg.sigma = <<2, 3, 1>>
    /\ arg.a = 2
    /\ arg.b = -3
    /\ ret.sum = Ok(<<3, 1, 2>>)
    /\ ret.neg1.val # arg.sigma

\* ------------------------------------------------------------- order (C6)

InitOrder ==
    /\ pc = "call"
    /\ arg \in UNION {{[n |-> n, sigma |-> s] : s \in SeqSet(generate_Sn(n))} :
                      n \in 0..MaxOrdN}
    /\ ret = None
    /\ loc = None

\* order entered with the counter at 0: an off-by-one.
OrderEnterFromZero ==
    /\ pc = "call"
    /\ pc' = "loop"
    /\ loc' = [sigma   |-> arg.sigma,
               e       |-> identity(Cardinality(DOMAIN arg.sigma)),
               current |-> arg.sigma,
               k       |-> 0]
    /\ UNCHANGED <<arg, ret>>

\* order(sigma), up to its loop: n = len(sigma); e = identity(n);
\* current = dict(sigma); k = 1.
OrderEnter ==
    /\ pc = "call"
    /\ pc' = "loop"
    /\ loc' = [sigma   |-> arg.sigma,
               e       |-> identity(Cardinality(DOMAIN arg.sigma)),
               current |-> arg.sigma,
               k       |-> 1]
    /\ UNCHANGED <<arg, ret>>

\* One test of "while current != e": the body (current = compose(current,
\* sigma); k += 1), whose compose may raise, or the return of k.
OrderStep ==
    /\ pc = "loop"
    /\ IF loc.current # loc.e
       THEN /\ loc.k < MaxK
            /\ LET r == compose(loc.current, loc.sigma)
               IN  IF r.err # ""
                   THEN /\ pc' = "raised"
                        /\ ret' = r
                        /\ loc' = loc
                   ELSE /\ pc' = "loop"
                        /\ ret' = ret
                        /\ loc' = [loc EXCEPT !.current = r.val, !.k = loc.k + 1]
       ELSE /\ pc' = "done"
            /\ ret' = Ok(loc.k)
            /\ loc' = loc
    /\ UNCHANGED arg

NextOrder == OrderEnter \/ OrderStep

\* The interpreter keeps running the call: a step that can be taken is taken.
SpecOrder == InitOrder /\ [][NextOrder]_vars /\ WF_vars(NextOrder)

\* What order returned is the least positive k with power(sigma, k) the
\* identity, and it divides n!.
OrderResultRight ==
    pc = "done" =>
        /\ ret.err = ""
        /\ ret.val >= 1
        /\ power(arg.sigma, ret.val) = Ok(identity(arg.n))
        /\ \A j \in 1..(ret.val - 1) : power(arg.sigma, j) # Ok(identity(arg.n))
        /\ factorial(arg.n) % ret.val = 0
        /\ arg.sigma = identity(arg.n) => ret.val = 1
        /\ arg.sigma = <<2, 3, 4, 1>> => ret.val = 4

\* C6: for every n in 0..MaxOrdN and sigma of generate_Sn(n) the loop of
\* order terminates, never raises, and returns the least positive k with
\* power(sigma, k) = identity(n); k divides n!, order(identity(n)) = 1 (also
\* for n <= 1) and order({1:2, 2:3, 3:4, 4:1}) = 4.
OrderTerminatesWithLeastK ==
    /\ <>(pc = "done")
    /\ [](pc # "raised")
    /\ []OrderResultRight

\* order returned 4 for the 4-cycle, after three turns of its loop.
OrderWitness ==
    /\ pc = "done"
    /\ arg.sigma = <<2, 3, 4, 1>>
    /\ loc.k = 4
    /\ ret = Ok(4)

\* order returned 1 for the identity of the empty set.
OrderOfEmptyIdentityReached ==
    /\ pc = "done"
    /\ arg.n = 0
    /\ ret = Ok(1)

\* ------------------------------------------------------- generate_Sn (C8)

InitGen ==
    /\ pc = "call"
    /\ arg \in {[n |-> n] : n \in 0..MaxGenN}
    /\ ret = None
    /\ loc = None

\* generate_Sn(n), up to its loop: elements = []; the iterator
\* itertools.permutations(range(1, n + 1)) stands before (1, ..., n).
GenEnter ==
    /\ pc = "call"
    /\ pc' = "loop"
    /\ loc' = [elements |-> <<>>,
               perm     |-> [i \in 1..arg.n |-> i],
               stop     |-> FALSE]
    /\ UNCHANGED <<arg, ret>>

\* One turn of "for perm in ...": elements.append(dict(zip(..., perm))),
\* the iterator moving to its next tuple or to its end.
GenStep ==
    /\ pc = "loop"
    /\ ~loc.stop
    /\ loc' = [elements |-> Append(loc.elements, zip_dict(arg.n, loc.perm)),
               perm     |-> IF is_last_permutation(loc.perm)
                            THEN loc.perm
                            ELSE next_permutation(loc.perm),
               stop     |-> is_last_permutation(loc.perm)]
    /\ UNCHANGED <<pc, arg, ret>>

\* The iterator is exhausted: return elements.
GenReturn ==
    /\ pc = "loop"
    /\ loc.stop
    /\ pc' = "done"
    /\ ret' = Ok(loc.elements)
    /\ UNCHANGED <<arg, loc>>

NextGen == GenEnter \/ GenStep \/ GenReturn

SpecGen == InitGen /\ [][NextGen]_vars

\* The bijections of {1..n} onto itself, by definition.
Bijections(n) ==
    {f \in [1..n -> 1..n] :
        /\ \A x, y \in 1..n : f[x] = f[y] => x = y
        /\ \A y \in 1..n : \E x \in 1..n : f[x] = y}

\* C8: generate_Sn(n) returns exactly n! elements, pairwise distinct (no
\* element appended in its loop equals an earlier one), each a bijection of
\* {1..n} onto itself, every such bijection among them; a second call
\* returns the same sequence.
GenerateSnComplete ==
    /\ pc = "loop" =>
          \A i \in 1..(Len(loc.elements) - 1) :
              loc.elements[i] # loc.elements[Len(loc.elements)]
    /\ pc = "done" =>
          /\ ret.err = ""
          /\ Len(ret.val) = factorial(arg.n)
          /\ Cardinality(SeqSet(ret.val)) = Len(ret.val)
          /\ SeqSet(ret.val) = Bijections(arg.n)
          /\ ret.val = generate_Sn(arg.n)

\* generate_Sn(3) returned its six elements, in lexicographic order.
GenerateSnWitness ==
    /\ pc = "done"
    /\ arg.n = 3
    /\ ret.val = << <<1, 2, 3>>, <<1, 3, 2>>, <<2, 1, 3>>,
                    <<2, 3, 1>>, <<3, 1, 2>>, <<3, 2, 1>> >>

\* -------------------------- construction and use of a permutation (C9, C10)

InitMake ==
    /\ pc = "call"
    /\ arg \in {[mapping |-> m] : m \in Mappings}
    /\ ret = None
    /\ loc = None

\* make_permutation(mapping): the mapping is accepted (returned) or
\* rejected (ValueError).
Construct ==
    /\ pc = "call"
    /\ ret' = make_permutation(arg.mapping)
    /\ pc' = IF ret'.err = "" THEN "accepted" ELSE "rejected"
    /\ loc' = [made |-> ret'.val]
    /\ UNCHANGED arg

\* An accepted mapping is passed to inverse.
UseInverse ==
    /\ pc = "accepted"
    /\ ret' = Ok(inverse(loc.made))
    /\ pc' = "used"
    /\ loc' = [made |-> loc.made, op |-> "inverse"]
    /\ UNCHANGED arg

\* An accepted mapping is passed to power.
UsePower ==
    /\ pc = "accepted"
    /\ \E k \in (-MaxExp)..MaxExp :
          /\ ret' = power(loc.made, k)
          /\ loc' = [made |-> loc.made, op |-> "power", k |-> k]
    /\ pc' = "used"
    /\ UNCHANGED arg

\* An accepted mapping is passed to to_cycles.
UseToCycles ==
    /\ pc = "accepted"
    /\ ret' = to_cycles(loc.made)
    /\ pc' = "used"
    /\ loc' = [made |-> loc.made, op |-> "to_cycles"]
    /\ UNCHANGED arg

\* An accepted mapping is passed to order, which enters its loop.
UseOrder ==
    /\ pc = "accepted"
    /\ pc' = "loop"
    /\ loc' = [made    |-> loc.made,
               sigma   |-> loc.made,
               e       |-> identity(Cardinality(DOMAIN loc.made)),
               current |-> loc.made,
               k       |-> 1]
    /\ UNCHANGED <<arg, ret>>

NextMake ==
    Construct \/ UseInverse \/ UsePower \/ UseToCycles \/ UseOrder \/ OrderStep

SpecMake == InitMake /\ [][NextMake]_vars

\* A mapping is a bijection of its key set onto itself: no value repeats,
\* every value is a key and every key is a value.
IsBijectionOfKeys(m) ==
    /\ \A x, y \in DOMAIN m : m[x] = m[y] => x = y
    /\ \A x \in DOMAIN m : m[x] \in DOMAIN m
    /\ \A y \in DOMAIN m : \E x \in DOMAIN m : m[x] = y

\* C9: make_permutation raises the validation error exactly when the mapping
\* is not a bijection of its key set onto itself (its key set differs from
\* its value set) and otherwise returns a mapping equal to its argument; a
\* repeated value or a value that is no key is never accepted.
MakePermutationContract ==
    pc \in {"accepted", "rejected"} =>
        /\ (ret.err = "ValueError") <=> ~IsBijectionOfKeys(arg.mapping)
        /\ (ret.err = "ValueError") <=> (DOMAIN arg.mapping # Range(arg.mapping))
        /\ ret.err \in {"", "ValueError"}
        /\ (pc = "rejected") <=> (ret.err = "ValueError")
        /\ pc = "accepted" =>
              /\ DOMAIN ret.val = DOMAIN arg.mapping
              /\ \A i \in DOMAIN arg.mapping : ret.val[i] = arg.mapping[i]
        /\ (\E x, y \in DOMAIN arg.mapping :
                x # y /\ arg.mapping[x] = arg.mapping[y]) => pc = "rejected"
        /\ (\E x \in DOMAIN arg.mapping :
                arg.mapping[x] \notin DOMAIN arg.mapping) => pc = "rejected"

\* make_permutation rejected a mapping whose values are all keys but repeat.
MakePermutationWitness ==
    /\ pc = "rejected"
    /\ arg.mapping = <<1, 1, 2>>
    /\ Range(arg.mapping) \subseteq DOMAIN arg.mapping
    /\ ret.err = "ValueError"

\* make_permutation accepted a 3-cycle and returned it.
MakePermutationAcceptReached ==
    /\ pc = "accepted"
    /\ arg.mapping = <<2, 3, 1>>
    /\ ret = Ok(<<2, 3, 1>>)

\* C10: every mapping make_permutation accepts is a bijection of {1..n} onto
\* itself, n its number of keys, so that inverse, power, order and to_cycles
\* applied to it complete without raising and the loop of order terminates
\* (the order of a permutation of n points is at most n!, so the counter of
\* the loop never passes n!).
AcceptedIsWellFormed ==
    pc \notin {"call", "rejected"} =>
        LET n == Cardinality(DOMAIN arg.mapping)
        IN  /\ arg.mapping \in Bijections(n)
            /\ pc # "raised"
            /\ pc \in {"used", "done"} => ret.err = ""
            /\ pc = "loop" => loc.k <= factorial(n)

\* The second half of C10 alone: what was accepted is never the cause of a
\* later exception.
AcceptedNeverRaisesLater ==
    pc \in {"used", "done", "raised"} => ret.err = ""

\* The last part of C10 alone: the counter of order's loop stays within n!.
OrderOfAcceptedIsBounded ==
    pc = "loop" => loc.k <= factorial(Cardinality(DOMAIN arg.mapping))

\* ------------------------------------------- candidate subgroups of S_n

RECURSIVE Closure(_)
\* The least set holding S and closed under compose.
Closure(S) ==
    LET S2 == S \cup {compose(a, b).val : a \in S, b \in S}
    IN  IF S2 = S THEN S ELSE Closure(S2)

\* The sets of permutations generated by at most two elements of S_n.
GeneratedSets(n) ==
    LET Sn == SeqSet(generate_Sn(n))
    IN  {Closure({a, b}) : a \in Sn, b \in Sn}

\* A set of permutations as a list, in the order of generate_Sn(n).
AsList(n, G) == SelectSeq(generate_Sn(n), LAMBDA s : s \in G)

\* A list read from its element r + 1 on, wrapping round at its end.
Rotate(list, r) ==
    [j \in 1..Len(list) |-> list[((j - 1 + r) % Len(list)) + 1]]

\* The subgroups of S_n offered to coset_decomposition: the generated sets
\* that pass is_subgroup, each listed from every one of its elements on.
SubgroupLists(n) ==
    {Rotate(AsList(n, G), r) :
        G \in {X \in GeneratedSets(n) : is_subgroup(AsList(n, X), n) = Ok(TRUE)},
        r \in 0..(factorial(n) - 1)}

\* The lists offered to is_subgroup: the generated sets, each of them
\* with one element taken away or one element of S_n added, and every list
\* of at most MaxListLen elements of S_n (repeats and any order included).
CandidateLists(n) ==
    LET Sn == SeqSet(generate_Sn(n))
        Gs == GeneratedSets(n)
    IN  {AsList(n, G) : G \in Gs}
        \cup {AsList(n, G \ {g}) : G \in Gs, g \in Sn}
        \cup {AsList(n, G \cup {g}) : G \in Gs, g \in Sn}
        \cup UNION {[1..len -> Sn] : len \in 0..MaxListLen}

\* ------------------------------------------------------- is_subgroup (C5)

InitSubgroup ==
    /\ pc = "call"
    /\ arg \in UNION {{[n |-> n, subset |-> l] : l \in CandidateLists(n)} :
                      n \in 1..MaxN}
    /\ ret = None
    /\ loc = None

IsSubgroup ==
    /\ pc = "call"
    /\ pc' = "done"
    /\ ret' = is_subgroup(arg.subset, arg.n)
    /\ UNCHANGED <<arg, loc>>

SpecSubgroup == InitSubgroup /\ [][IsSubgroup]_vars

\* C5: is_subgroup(subset, n) never raises on a list of permutations of
\* {1..n} and returns true exactly when the list holds identity(n), the
\* composition of every pair of its elements (s = t included) and the
\* inverse of every element; it is true of generate_Sn(n), false of [].
IsSubgroupContract ==
    pc = "done" =>
        LET S == SeqSet(arg.subset)
        IN  /\ ret.err = ""
            /\ ret.val <=>
                  /\ identity(arg.n) \in S
                  /\ \A s, t \in S : compose(s, t).val \in S
                  /\ \A s \in S : inverse(s) \in S
            /\ arg.subset = generate_Sn(arg.n) => ret.val
            /\ arg.subset = <<>> => ~ret.val

\* is_subgroup returned false for a list that holds the identity and every
\* inverse but is not closed: e, (2 3), (1 2).
IsSubgroupWitness ==
    /\ pc = "done"
    /\ arg.n = 3
    /\ arg.subset = << <<1, 2, 3>>, <<1, 3, 2>>, <<2, 1, 3>> >>
    /\ ret = Ok(FALSE)

\* is_subgroup returned true for S_3 itself.
IsSubgroupOfSnReached ==
    /\ pc = "done"
    /\ arg.n = 3
    /\ arg.subset = generate_Sn(3)
    /\ ret = Ok(TRUE)

\* Every subset of S_n (n up to MaxN) that passes is_subgroup is among the
\* generated sets: the candidate subgroups leave no subgroup out (looked at
\* once for each n, in the initial state of the call on the empty list).
SubgroupEnumerationComplete ==
    (pc = "call" /\ arg.subset = <<>>) =>
        {X \in SUBSET SeqSet(generate_Sn(arg.n)) :
            is_subgroup(AsList(arg.n, X), arg.n) = Ok(TRUE)}
                \subseteq GeneratedSets(arg.n)

\* ----------------------------------------------- coset_decomposition (C4)

InitCoset ==
    /\ pc = "call"
    /\ arg \in UNION {{[n |-> n, Sn |-> generate_Sn(n), subgroup |-> H] :
                          H \in SubgroupLists(n)} : n \in 1..MaxN}
    /\ ret = None
    /\ loc = None

\* The locals of coset_decomposition(Sn, subgroup) before its loop: covered
\* and cosets empty, subgroup_keys computed, the loop at the first element
\* of Sn; back is where the call returns to.
coset_locals(Sn, subgroup, back) ==
    [Sn            |-> Sn,
     subgroup      |-> subgroup,
     covered       |-> {},
     cosets        |-> <<>>,
     subgroup_keys |-> {perm_key(subgroup[i]) : i \in 1..Len(subgroup)},
     i             |-> 1,
     back          |-> back]

\* coset_decomposition is called on its own.
CosetEnter ==
    /\ pc = "call"
    /\ pc' = "cosets"
    /\ loc' = coset_locals(arg.Sn, arg.subgroup, "done")
    /\ UNCHANGED <<arg, ret>>

\* One turn of "for sigma in Sn": an element not yet covered starts a
\* coset, which is appended and whose elements are all marked covered.
CosetStep ==
    /\ pc = "cosets"
    /\ loc.i <= Len(loc.Sn)
    /\ LET sigma == loc.Sn[loc.i]
           key   == perm_key(sigma)
           coset == left_coset(sigma, loc.subgroup)
       IN  IF key \in loc.covered
           THEN /\ loc' = [loc EXCEPT !.i = loc.i + 1]
                /\ UNCHANGED <<pc, ret>>
           ELSE IF coset.err # ""
                THEN /\ pc' = "raised"
                     /\ ret' = coset
                     /\ loc' = loc
                ELSE /\ loc' = [loc EXCEPT
                                  !.cosets  = Append(loc.cosets, coset.val),
                                  !.covered = loc.covered \cup coset_keys(coset.val),
                                  !.i       = loc.i + 1]
                     /\ UNCHANGED <<pc, ret>>
    /\ UNCHANGED arg

\* After the loop: the sort that puts the subgroup's coset first, and the
\* return.
CosetSort ==
    /\ pc = "cosets"
    /\ loc.i > Len(loc.Sn)
    /\ ret' = sort_cosets(loc.cosets, loc.subgroup_keys)
    /\ pc' = IF ret'.err # "" THEN "raised" ELSE loc.back
    /\ UNCHANGED <<arg, loc>>

NextCoset == CosetEnter \/ CosetStep \/ CosetSort

SpecCoset == InitCoset /\ [][NextCoset]_vars

\* C4: for every subgroup H of S_n, coset_decomposition(generate_Sn(n), H)
\* returns len(Sn) // len(H) cosets, each of len(H) distinct elements,
\* pairwise disjoint, every element of Sn in exactly one place of them.
CosetsPartitionSn ==
    pc = "done" =>
        LET cosets == ret.val
            all    == Flatten(cosets)
        IN  /\ ret.err = ""
            /\ Len(cosets) = Len(arg.Sn) \div Len(arg.subgroup)
            /\ \A c \in 1..Len(cosets) :
                  /\ Len(cosets[c]) = Len(arg.subgroup)
                  /\ Cardinality(SeqSet(cosets[c])) = Len(arg.subgroup)
            /\ \A c, d \in 1..Len(cosets) :
                  c # d => SeqSet(cosets[c]) \cap SeqSet(cosets[d]) = {}
            /\ \A s \in SeqSet(arg.Sn) :
                  Cardinality({j \in 1..Len(all) : all[j] = s}) = 1
            /\ SeqSet(all) = SeqSet(arg.Sn)

\* coset_decomposition returned the three cosets of a subgroup of order 2
\* that is not normal in S_3: {e, (1 2)}.
CosetsWitness ==
    /\ pc = "done"
    /\ arg.n = 3
    /\ arg.subgroup = << <<1, 2, 3>>, <<2, 1, 3>> >>
    /\ Len(ret.val) = 3
    /\ ret.val[2] = << <<1, 3, 2>>, <<3, 1, 2>> >>

\* --------------------------------------------------- verify_stabilizer (C3)

InitVerify ==
    /\ pc = "call"
    /\ arg \in UNION {{[n |-> n, fixed_point |-> x] : x \in 1..n} : n \in 1..MaxVerN}
    /\ ret = None
    /\ loc = None

\* verify_stabilizer(n, fixed_point), up to its checks: Sn, stab and orb
\* are computed, results = [].
VerifyEnter ==
    /\ pc = "call"
    /\ pc' = "check1"
    /\ loc' = LET Sn == generate_Sn(arg.n)
              IN  [Sn      |-> Sn,
                   stab    |-> compute_stabilizer(Sn, arg.fixed_point),
                   orb     |-> compute_orbit(Sn, arg.fixed_point),
                   results |-> <<>>]
    /\ UNCHANGED <<arg, ret>>

\* Check 1: results.append(is_subgroup(stab, n)).
VerifySubgroup ==
    /\ pc = "check1"
    /\ LET sub_check == is_subgroup(loc.stab, arg.n)
       IN  IF sub_check.err # ""
           THEN /\ pc' = "raised"
                /\ ret' = sub_check
                /\ loc' = loc
           ELSE /\ pc' = "check2"
                /\ ret' = ret
                /\ loc' = [loc EXCEPT !.results = Append(@, sub_check.val)]
    /\ UNCHANGED arg

\* Check 2: results.append(len(stab) == math.factorial(n - 1)).
VerifyOrder ==
    /\ pc = "check2"
    /\ pc' = "check3"
    /\ loc' = [loc EXCEPT
                 !.results = Append(@, Len(loc.stab) = factorial(arg.n - 1))]
    /\ UNCHANGED <<arg, ret>>

\* Check 3: results.append(len(Sn) == len(orb) * len(stab)).
VerifyOrbitStabilizer ==
    /\ pc = "check3"
    /\ pc' = "check4"
    /\ loc' = [loc EXCEPT
                 !.results = Append(@, Len(loc.Sn) =
                                       Cardinality(loc.orb) * Len(loc.stab))]
    /\ UNCHANGED <<arg, ret>>

\* Check 4: index = len(Sn) // len(stab), which raises ZeroDivisionError
\* for an empty stab; results.append(index == n).
VerifyIndex ==
    /\ pc = "check4"
    /\ IF Len(loc.stab) = 0
       THEN /\ pc' = "raised"
            /\ ret' = Raise("ZeroDivisionError")
            /\ loc' = loc
       ELSE /\ pc' = "check5"
            /\ ret' = ret
            /\ loc' = [loc EXCEPT
                         !.results = Append(@, (Len(loc.Sn) \div Len(loc.stab)) = arg.n)]
    /\ UNCHANGED arg

\* Check 5 calls coset_decomposition(Sn, stab).
VerifyCallCosets ==
    /\ pc = "check5"
    /\ pc' = "cosets"
    /\ loc' = [f \in {"stab", "orb", "results"} |-> loc[f]]
              @@ coset_locals(loc.Sn, loc.stab, "check5_back")
    /\ UNCHANGED <<arg, ret>>

\* Check 5, with the cosets returned: results.append(len(cosets) == n and
\* sum(len(c) for c in cosets) == len(Sn)); return all(results).
VerifyCosets ==
    /\ pc = "check5_back"
    /\ pc' = "done"
    /\ LET cosets      == ret.val
           coset_check == /\ Len(cosets) = arg.n
                          /\ Len(Flatten(cosets)) = Len(loc.Sn)
           results     == Append(loc.results, coset_check)
       IN  /\ loc' = [loc EXCEPT !.cosets = cosets, !.results = results]
           /\ ret' = Ok(\A i \in 1..Len(results) : results[i])
    /\ UNCHANGED arg

NextVerify ==
    \/ VerifyEnter
    \/ VerifySubgroup
    \/ VerifyOrder
    \/ VerifyOrbitStabilizer
    \/ VerifyIndex
    \/ VerifyCallCosets
    \/ CosetStep
    \/ CosetSort
    \/ VerifyCosets

SpecVerify == InitVerify /\ [][NextVerify]_vars

\* C3: for every n in 1..MaxVerN and fixed_point in 1..n,
\* verify_stabilizer(n, fixed_point) returns true and never raises: the
\* stabilizer passes is_subgroup, has (n-1)! elements, |S_n| = |orbit| *
\* |Stab|, the index is n, and there are n cosets whose sizes sum to n!.
VerifyStabilizerTrue ==
    /\ pc # "raised"
    /\ pc = "done" =>
          /\ ret = Ok(TRUE)
          /\ loc.results = <<TRUE, TRUE, TRUE, TRUE, TRUE>>
          /\ is_subgroup(loc.stab, arg.n) = Ok(TRUE)
          /\ Len(loc.stab) = factorial(arg.n - 1)
          /\ Len(loc.Sn) = Cardinality(loc.orb) * Len(loc.stab)
          /\ Len(loc.Sn) \div Len(loc.stab) = arg.n
          /\ Len(loc.cosets) = arg.n
          /\ Len(Flatten(loc.cosets)) = factorial(arg.n)

\* verify_stabilizer(4, 3) returned, its stabilizer of six elements moving
\* point 1 and its four cosets found.
VerifyStabilizerWitness ==
    /\ pc = "done"
    /\ arg.n = 4
    /\ arg.fixed_point = 3
    /\ Len(loc.stab) = 6
    /\ \E i \in 1..6 : loc.stab[i][1] # 1
    /\ Len(loc.cosets) = 4
    /\ ret.val

\* ------------------------------- to_cycles and cycle_notation_str (C11)

InitCycles ==
    /\ pc = "call"
    /\ arg \in UNION {{[n |-> n, sigma |-> s] : s \in SeqSet(generate_Sn(n))} :
                      n \in 0..MaxCycN}
    /\ ret = None
    /\ loc = None

\* cycle_notation_str(sigma) calls to_cycles(sigma), which starts with
\* visited and cycles empty, before the first of sorted(sigma.keys()).
CyclesEnter ==
    /\ pc = "call"
    /\ pc' = "scan"
    /\ loc' = [visited |-> {},
               cycles  |-> <<>>,
               starts  |-> sorted(DOMAIN arg.sigma)]
    /\ UNCHANGED <<arg, ret>>

\* One turn of "for start in sorted(sigma.keys())": a visited start is
\* skipped; otherwise its cycle is followed and kept when longer than 1.
CyclesStep ==
    /\ pc = "scan"
    /\ loc.starts # <<>>
    /\ LET start == Head(loc.starts)
           f     == follow_cycle(arg.sigma, start, loc.visited, <<>>)
       IN  IF start \in loc.visited
           THEN /\ loc' = [loc EXCEPT !.starts = Tail(loc.starts)]
                /\ UNCHANGED <<pc, ret>>
           ELSE IF f.err # ""
                THEN /\ pc' = "raised"
                     /\ ret' = f
                     /\ loc' = loc
                ELSE /\ loc' = [visited |-> f.val.visited,
                                cycles  |-> IF Len(f.val.cycle) > 1
                                            THEN Append(loc.cycles, f.val.cycle)
                                            ELSE loc.cycles,
                                starts  |-> Tail(loc.starts)]
                     /\ UNCHANGED <<pc, ret>>
    /\ UNCHANGED arg

\* to_cycles returns cycles; cycle_notation_str renders and returns them.
CyclesRender ==
    /\ pc = "scan"
    /\ loc.starts = <<>>
    /\ pc' = "done"
    /\ ret' = render_cycles(loc.cycles)
    /\ UNCHANGED <<arg, loc>>

NextCycles == CyclesEnter \/ CyclesStep \/ CyclesRender

SpecCycles == InitCycles /\ [][NextCycles]_vars

\* The permutation of {1..n} that a list of cycles denotes: a point of a
\* cycle goes to the next one (the last to the first), any other to itself.
FromCycles(n, cycles) ==
    [x \in 1..n |->
        IF \E c \in 1..Len(cycles) : x \in SeqSet(cycles[c])
        THEN LET c == CHOOSE c \in 1..Len(cycles) : x \in SeqSet(cycles[c])
                 j == CHOOSE j \in 1..Len(cycles[c]) : cycles[c][j] = x
             IN  cycles[c][(j % Len(cycles[c])) + 1]
        ELSE x]

\* C11: for every sigma of generate_Sn(n), to_cycles(sigma) returns cycles
\* that are pairwise disjoint, each of length >= 2, each beginning with its
\* smallest point, every point followed by its image under sigma (the last
\* by the first); they come by ascending smallest element and hold exactly
\* the points sigma moves; the result is empty, and cycle_notation_str is
\* "e", exactly when sigma is identity(n); distinct elements of S_n have
\* distinct decompositions (sigma is read back from its cycles).
CyclesContract ==
    /\ pc # "raised"
    /\ pc = "done" =>
          LET cycles == loc.cycles
              sigma  == arg.sigma
              pts(c) == SeqSet(cycles[c])
          IN  /\ ret.err = ""
              /\ to_cycles(sigma) = Ok(cycles)
              /\ \A c \in 1..Len(cycles) :
                    /\ Len(cycles[c]) >= 2
                    /\ Cardinality(pts(c)) = Len(cycles[c])
                    /\ cycles[c][1] = Min(pts(c))
                    /\ \A j \in 1..Len(cycles[c]) :
                          sigma[cycles[c][j]] = cycles[c][(j % Len(cycles[c])) + 1]
              /\ \A c, d \in 1..Len(cycles) :
                    /\ c # d => pts(c) \cap pts(d) = {}
                    /\ c < d => cycles[c][1] < cycles[d][1]
              /\ UNION {pts(c) : c \in 1..Len(cycles)} =
                     {x \in 1..arg.n : sigma[x] # x}
              /\ (cycles = <<>>) <=> (sigma = identity(arg.n))
              /\ (ret.val = <<"e">>) <=> (sigma = identity(arg.n))
              /\ FromCycles(arg.n, cycles) = sigma
              /\ \A tau \in SeqSet(generate_Sn(arg.n)) :
                    tau # sigma => to_cycles(tau) # Ok(cycles)

\* cycle_notation_str returned "(1 3)(2 4)": two cycles, the second found
\* from a start that is not the first unvisited point's image.
CyclesWitness ==
    /\ pc = "done"
    /\ arg.sigma = <<3, 4, 1, 2>>
    /\ loc.cycles = << <<1, 3>>, <<2, 4>> >>
    /\ ret = Ok(<<"(", "1", " ", "3", ")", "(", "2", " ", "4", ")">>)

\* cycle_notation_str returned "e" for identity(4).
CyclesIdentityReached ==
    /\ pc = "done"
    /\ arg.sigma = <<1, 2, 3, 4>>
    /\ loc.cycles = <<>>
    /\ ret = Ok(<<"e">>)

\* --------------------------- the order of the cosets returned (C12)

\* A list read backwards.
Reverse(list) == [j \in 1..Len(list) |-> list[Len(list) + 1 - j]]

\* The orders a list is offered in: every one of them for a list of at
\* most MaxShuffle elements; the rotations of a longer list and of its
\* reversal.
Orderings(list) ==
    IF Len(list) <= MaxShuffle
    THEN {[j \in 1..Len(list) |-> list[p[j]]] :
             p \in SeqSet(generate_Sn(Len(list)))}
    ELSE {Rotate(l, r) : l \in {list, Reverse(list)}, r \in 0..(Len(list) - 1)}

InitCosetOrder ==
    /\ pc = "call"
    /\ arg \in UNION {{[n |-> n, Sn |-> L, subgroup |-> H] :
                          L \in Orderings(generate_Sn(n)),
                          H \in SubgroupLists(n)} : n \in 1..MaxN}
    /\ ret = None
    /\ loc = None

SpecCosetOrder == InitCosetOrder /\ [][NextCoset]_vars

\* C12: for every subgroup H of S_n and every order of the elements of S_n
\* passed as Sn, the first coset coset_decomposition returns is H as a set,
\* no other returned coset holds an element of H, and the other cosets come
\* in the order the loop found them in.
SubgroupCosetFirst ==
    pc = "done" =>
        LET H      == SeqSet(arg.subgroup)
            cosets == ret.val
        IN  /\ ret.err = ""
            /\ Len(cosets) >= 1
            /\ SeqSet(cosets[1]) = H
            /\ \A c \in 2..Len(cosets) : SeqSet(cosets[c]) \cap H = {}
            /\ Tail(cosets) = SelectSeq(loc.cosets, LAMBDA c : SeqSet(c) # H)

\* coset_decomposition returned for an Sn whose first element is not in H
\* and an H whose first element is not the identity: the coset of H, found
\* last of three, was moved to the front, the other two kept their order.
SubgroupCosetFirstWitness ==
    /\ pc = "done"
    /\ arg.n = 3
    /\ arg.subgroup = << <<2, 1, 3>>, <<1, 2, 3>> >>
    /\ arg.Sn[1] \notin SeqSet(arg.subgroup)
    /\ Len(loc.cosets) = 3
    /\ SeqSet(loc.cosets[3]) = SeqSet(arg.subgroup)
    /\ ret.val = <<loc.cosets[3], loc.cosets[1], loc.cosets[2]>>

====
